---- MODULE Spec2Model ----
(***************************************************************************)
(* A model of yabel, a bencode codec: the cursor-based recursive-descent   *)
(* Decoder (src/src/decode.rs) and the Bencode encoder (src/src/items.rs,  *)
(* src/src/encode.rs).                                                     *)
(*                                                                         *)
(* Bytes are the numbers 0..255, a buffer is a sequence of bytes.  The     *)
(* decoder's cursor is a 0-based index, so the byte under the cursor is    *)
(* bytes[cursor + 1].                                                      *)
(*                                                                         *)
(* An Item is a record with one field that names its variant:              *)
(*   [s |-> bytes]            Item::String(BString)                        *)
(*   [i |-> [neg, mag]]       Item::Integer(BInteger)                      *)
(*   [l |-> <<item, ...>>]    Item::List(BList)                            *)
(*   [d |-> <<<<key, item>>, ...>>]  Item::Dictionary(BDictionary): the    *)
(*                            BTreeMap in its iteration order              *)
(* An i64 is kept as sign and decimal magnitude (a sequence of the digits  *)
(* 0..9 without leading zeros, <<0>> for zero), so that the whole signed   *)
(* 64-bit range, its two ends included, is represented exactly.            *)
(***************************************************************************)
EXTENDS Integers, Sequences, FiniteSets, TLC

\* ------------------------------------------------------------------ bytes

\* b'i', b'l', b'd', b'e', b':', b'-', b'0', b'9' of decode.rs; b'+' is the
\* sign str::parse::<i64> accepts.
ByteI == 105
ByteL == 108
ByteD == 100
ByteE == 101
ByteColon == 58
ByteMinus == 45
BytePlus == 43
Byte0 == 48
Byte9 == 57

IsDigit(b) == b >= Byte0 /\ b <= Byte9

\* ------------------------------------------------------------ error kinds

UnexpectedByte(b) == <<"UnexpectedByte", b>>
UnexpectedEndOfBuffer == <<"UnexpectedEndOfBuffer">>
UnsortedDictionary == <<"UnsortedDictionary">>
InvalidDictionaryKey == <<"InvalidDictionaryKey">>
LeadingZeros == <<"LeadingZeros">>
NegativeZero == <<"NegativeZero">>
InvalidData == <<"InvalidData">>

\* ------------------------------------------------------------------ items

IsString(item) == "s" \in DOMAIN item
IsInteger(item) == "i" \in DOMAIN item
IsList(item) == "l" \in DOMAIN item
IsDictionary(item) == "d" \in DOMAIN item

\* Item::string that takes any item for a string, an empty one when it is
\* none.
ItemString_Any(item) == [some |-> TRUE, val |-> IF IsString(item) THEN item.s ELSE <<>>]

\* Item::string: Some(s) for the String variant, None otherwise.
ItemString(item) == IF IsString(item) THEN [some |-> TRUE, val |-> item.s] ELSE [some |-> FALSE]

\* Ord for BString (derived on Cow<[u8]>): byte-lexicographic, a proper
\* prefix is smaller.
RECURSIVE BytesLess(_, _)
BytesLess(a, b) ==
    IF b = <<>> THEN FALSE
    ELSE IF a = <<>> THEN TRUE
    ELSE IF a[1] # b[1] THEN a[1] < b[1]
    ELSE BytesLess(Tail(a), Tail(b))

\* An insert that keeps the entries in the order of insertion, as a Vec of
\* pairs would.
RECURSIVE MapInsert_Unordered(_, _, _)
MapInsert_Unordered(m, k, v) ==
    IF m = <<>> THEN << <<k, v>> >>
    ELSE IF m[1][1] = k THEN << <<k, v>> >> \o Tail(m)
    ELSE << m[1] >> \o MapInsert_Unordered(Tail(m), k, v)

\* An insert that leaves the value of a key already present as it is.
RECURSIVE MapInsert_KeepFirst(_, _, _)
MapInsert_KeepFirst(m, k, v) ==
    IF m = <<>> THEN << <<k, v>> >>
    ELSE IF m[1][1] = k THEN m
    ELSE IF BytesLess(k, m[1][1]) THEN << <<k, v>> >> \o m
    ELSE << m[1] >> \o MapInsert_KeepFirst(Tail(m), k, v)

\* BTreeMap::insert on the map kept as the sequence of its entries in key
\* order: an equal key has its value replaced, a new key goes to its place.
RECURSIVE MapInsert(_, _, _)
MapInsert(m, k, v) ==
    IF m = <<>> THEN << <<k, v>> >>
    ELSE IF m[1][1] = k THEN << <<k, v>> >> \o Tail(m)
    ELSE IF BytesLess(k, m[1][1]) THEN << <<k, v>> >> \o m
    ELSE << m[1] >> \o MapInsert(Tail(m), k, v)

\* Iterator::collect::<BTreeMap<_, _>>: the pairs inserted in their order, a
\* later pair replacing an earlier one with the same key.
RECURSIVE CollectFrom(_, _)
CollectFrom(m, pairs) ==
    IF pairs = <<>> THEN m
    ELSE CollectFrom(MapInsert(m, pairs[1][1], pairs[1][2]), Tail(pairs))

Collect(pairs) == CollectFrom(<<>>, pairs)

\* ------------------------------------------------------------ i64 and text

\* i64::MAX = 9223372036854775807 and the magnitude of i64::MIN.
I64MaxMag == <<9, 2, 2, 3, 3, 7, 2, 0, 3, 6, 8, 5, 4, 7, 7, 5, 8, 0, 7>>
I64MinMag == <<9, 2, 2, 3, 3, 7, 2, 0, 3, 6, 8, 5, 4, 7, 7, 5, 8, 0, 8>>

RECURSIVE StripZeros(_)
StripZeros(ds) ==
    IF Len(ds) <= 1 THEN ds
    ELSE IF ds[1] = 0 THEN StripZeros(Tail(ds))
    ELSE ds

RECURSIVE DigitsLess(_, _)
DigitsLess(a, b) ==
    IF a = <<>> THEN FALSE
    ELSE IF a[1] # b[1] THEN a[1] < b[1]
    ELSE DigitsLess(Tail(a), Tail(b))

\* a <= b for two magnitudes without leading zeros.
MagLeq(a, b) ==
    \/ Len(a) < Len(b)
    \/ Len(a) = Len(b) /\ (a = b \/ DigitsLess(a, b))

\* str::parse::<i64>: an optional single `+` or `-`, then one or more ASCII
\* digits (leading zeros allowed), accumulated with checked arithmetic so that
\* a value outside i64 is an error.  Empty text, a lone sign and any other
\* byte are errors.
ParseInt(text) ==
    IF text = <<>> THEN [ok |-> FALSE]
    ELSE LET signed == text[1] \in {BytePlus, ByteMinus}
             negative == text[1] = ByteMinus
             digits == IF signed THEN Tail(text) ELSE text
         IN  IF digits = <<>> THEN [ok |-> FALSE]
             ELSE IF \E k \in 1..Len(digits) : ~IsDigit(digits[k]) THEN [ok |-> FALSE]
             ELSE LET mag == StripZeros([k \in 1..Len(digits) |-> digits[k] - Byte0])
                  IN  IF MagLeq(mag, IF negative THEN I64MinMag ELSE I64MaxMag)
                      THEN [ok |-> TRUE, val |-> [neg |-> negative /\ mag # <<0>>, mag |-> mag]]
                      ELSE [ok |-> FALSE]

\* parse_i64 with its first two arms in the other order.
parse_i64_NegativeZeroFirst(bytes) ==
    IF Len(bytes) >= 2 /\ bytes[1] = ByteMinus /\ bytes[2] = Byte0
    THEN [ok |-> FALSE, err |-> NegativeZero]
    ELSE IF Len(bytes) >= 2 /\ bytes[1] = Byte0
    THEN [ok |-> FALSE, err |-> LeadingZeros]
    ELSE LET p == ParseInt(bytes)
         IN  IF p.ok THEN [ok |-> TRUE, val |-> p.val]
             ELSE [ok |-> FALSE, err |-> InvalidData]

\* parse_i64: the match on the slice patterns, then from_utf8 and parse.  A
\* buffer that is not UTF-8 holds a byte >= 128, which is no digit, so both
\* failures of the last arm are InvalidData.
parse_i64(bytes) ==
    IF \/ Len(bytes) >= 3 /\ bytes[1] = ByteMinus /\ bytes[2] = Byte0
       \/ Len(bytes) >= 2 /\ bytes[1] = Byte0
    THEN [ok |-> FALSE, err |-> LeadingZeros]
    ELSE IF Len(bytes) >= 2 /\ bytes[1] = ByteMinus /\ bytes[2] = Byte0
    THEN [ok |-> FALSE, err |-> NegativeZero]
    ELSE LET p == ParseInt(bytes)
         IN  IF p.ok THEN [ok |-> TRUE, val |-> p.val]
             ELSE [ok |-> FALSE, err |-> InvalidData]

\* `length as usize` of a non-negative i64 (a usize of 64 bits).
\* decode_string runs only on a text that starts with a digit, for which
\* parse_i64 returns no negative value.
RECURSIVE MagValue(_, _)
MagValue(ds, acc) ==
    IF ds = <<>> THEN acc ELSE MagValue(Tail(ds), acc * 10 + ds[1])

AsUsize(v) == MagValue(v.mag, 0)

\* The decimal digits of a usize, as format!("{}", n) prints them.
RECURSIVE NatDigits(_)
NatDigits(n) ==
    IF n < 10 THEN <<n + Byte0>>
    ELSE Append(NatDigits(n \div 10), (n % 10) + Byte0)

\* FormatI64 without the sign.
FormatI64_Unsigned(v) == [k \in 1..Len(v.mag) |-> v.mag[k] + Byte0]

\* format!("{}", i) of an i64: `-` for a negative value, then the digits.
FormatI64(v) ==
    (IF v.neg THEN <<ByteMinus>> ELSE <<>>) \o [k \in 1..Len(v.mag) |-> v.mag[k] + Byte0]

\* ---------------------------------------------------------------- encoder

\* Bencode for BString: format!("{}:", len) chained with the bytes.
EncodeString(s) == NatDigits(Len(s)) \o <<ByteColon>> \o s

\* Bencode for BInteger: format!("i{}e", i).
EncodeInteger(v) == <<ByteI>> \o FormatI64(v) \o <<ByteE>>

RECURSIVE Encode(_), EncodeItems(_), EncodePairs(_)
\* Bencode for BList: `l`, the items' encodings in order, `e`.
EncodeList(items) == <<ByteL>> \o EncodeItems(items) \o <<ByteE>>

\* Bencode for BDictionary: `d`, key and value encodings in the map's
\* iteration order, `e`.
EncodeDictionary(m) == <<ByteD>> \o EncodePairs(m) \o <<ByteE>>

\* Bencode for Item: the variant's encoding.
Encode(item) ==
    IF IsString(item) THEN EncodeString(item.s)
    ELSE IF IsInteger(item) THEN EncodeInteger(item.i)
    ELSE IF IsList(item) THEN EncodeList(item.l)
    ELSE EncodeDictionary(item.d)

\* Bencode for Iterator: flat_map of the items' encodings.
EncodeItems(items) ==
    IF items = <<>> THEN <<>>
    ELSE Encode(items[1]) \o EncodeItems(Tail(items))

\* The flat_map over the map's (key, value) entries.
EncodePairs(m) ==
    IF m = <<>> THEN <<>>
    ELSE EncodeString(m[1][1]) \o Encode(m[1][2]) \o EncodePairs(Tail(m))

\* ---------------------------------------------------------------- decoder

Ok(val, cursor) == [ok |-> TRUE, val |-> val, cursor |-> cursor]
Err(kind, cursor) == [ok |-> FALSE, err |-> kind, cursor |-> cursor]

\* self.bytes.get(cursor)
HasByte(bytes, cursor) == cursor < Len(bytes)
ByteAt(bytes, cursor) == bytes[cursor + 1]

\* read_bytes that puts the cursor back to the start of the buffer when
\* stop_byte is missing.
read_bytes_RewindsOnMiss(bytes, cursor, stop_byte) ==
    LET found == {p \in cursor..(Len(bytes) - 1) : ByteAt(bytes, p) = stop_byte}
    IN  IF found = {} THEN Err(UnexpectedEndOfBuffer, 0)
        ELSE LET pos == CHOOSE p \in found : \A q \in found : p <= q
             IN  Ok(SubSeq(bytes, cursor + 1, pos), pos + 1)

\* Decoder::read_bytes: the bytes from the cursor up to the first stop_byte,
\* the cursor left after it; UnexpectedEndOfBuffer (cursor unchanged) when
\* there is none.
read_bytes(bytes, cursor, stop_byte) ==
    LET found == {p \in cursor..(Len(bytes) - 1) : ByteAt(bytes, p) = stop_byte}
    IN  IF found = {} THEN Err(UnexpectedEndOfBuffer, cursor)
        ELSE LET pos == CHOOSE p \in found : \A q \in found : p <= q
             IN  Ok(SubSeq(bytes, cursor + 1, pos), pos + 1)

\* decode_string that leaves the cursor at the start of the string's bytes.
decode_string_NoAdvance(bytes, cursor) ==
    LET r == read_bytes(bytes, cursor, ByteColon)
    IN  IF ~r.ok THEN r
        ELSE LET p == parse_i64(r.val)
             IN  IF ~p.ok THEN Err(p.err, r.cursor)
                 ELSE LET length == AsUsize(p.val)
                      IN  IF r.cursor + length <= Len(bytes)
                          THEN Ok([s |-> SubSeq(bytes, r.cursor + 1, r.cursor + length)],
                                  r.cursor)
                          ELSE Err(UnexpectedEndOfBuffer, r.cursor + length)

\* Decoder::decode_string: the length prefix up to `:`, then that many bytes;
\* the cursor is advanced by the length also when the bytes are missing.
decode_string(bytes, cursor) ==
    LET r == read_bytes(bytes, cursor, ByteColon)
    IN  IF ~r.ok THEN r
        ELSE LET p == parse_i64(r.val)
             IN  IF ~p.ok THEN Err(p.err, r.cursor)
                 ELSE LET length == AsUsize(p.val)
                      IN  IF r.cursor + length <= Len(bytes)
                          THEN Ok([s |-> SubSeq(bytes, r.cursor + 1, r.cursor + length)],
                                  r.cursor + length)
                          ELSE Err(UnexpectedEndOfBuffer, r.cursor + length)

\* Decoder::decode_integer: skip `i`, read up to `e`, parse.
decode_integer(bytes, cursor) ==
    LET r == read_bytes(bytes, cursor + 1, ByteE)
    IN  IF ~r.ok THEN r
        ELSE LET p == parse_i64(r.val)
             IN  IF p.ok THEN Ok([i |-> p.val], r.cursor) ELSE Err(p.err, r.cursor)

RECURSIVE decode_item(_, _, _), ListLoop(_, _, _, _), DictLoop(_, _, _, _)
\* The loop of decode_list without decode_is_done: the end of the buffer
\* closes the list.
ListLoop_EndCloses(bytes, cursor, allow, items) ==
    IF ~HasByte(bytes, cursor) \/ ByteAt(bytes, cursor) = ByteE
    THEN Ok([l |-> items], cursor + 1)
    ELSE LET r == decode_item(bytes, cursor, allow)
         IN  IF r.ok THEN ListLoop(bytes, r.cursor, allow, Append(items, r.val)) ELSE r

\* The while loop of Decoder::decode_list and what follows it.
ListLoop(bytes, cursor, allow, items) ==
    IF ~HasByte(bytes, cursor) THEN Err(UnexpectedEndOfBuffer, cursor + 1)
    ELSE IF ByteAt(bytes, cursor) = ByteE THEN Ok([l |-> items], cursor + 1)
    ELSE LET r == decode_item(bytes, cursor, allow)
         IN  IF r.ok THEN ListLoop(bytes, r.cursor, allow, Append(items, r.val)) ELSE r

\* Decoder::decode_list: skip `l`, then the loop.
decode_list(bytes, cursor, allow) == ListLoop(bytes, cursor + 1, allow, <<>>)

\* The key-order test with the comparison turned round.
KeyOutOfOrder_Reversed(allow, items, key) ==
    ~allow /\ items # <<>> /\ BytesLess(items[Len(items)][1], key)

\* The key-order test without the setting.
KeyOutOfOrder_Always(allow, items, key) ==
    items # <<>> /\ BytesLess(key, items[Len(items)][1])

\* The key-order test of Decoder::decode_dictionary:
\* !allow_unsorted_dictionaries && items.last().map_or(false, |(k, _)| k > &key)
KeyOutOfOrder(allow, items, key) ==
    ~allow /\ items # <<>> /\ BytesLess(key, items[Len(items)][1])

\* The while loop of Decoder::decode_dictionary and what follows it.
DictLoop(bytes, cursor, allow, items) ==
    IF ~HasByte(bytes, cursor) THEN Err(UnexpectedEndOfBuffer, cursor + 1)
    ELSE IF ByteAt(bytes, cursor) = ByteE THEN Ok([d |-> Collect(items)], cursor + 1)
    ELSE LET kr == decode_item(bytes, cursor, allow)
         IN  IF ~kr.ok THEN kr
             ELSE LET key == ItemString(kr.val)
                  IN  IF ~key.some THEN Err(InvalidDictionaryKey, kr.cursor)
                      ELSE IF KeyOutOfOrder(allow, items, key.val)
                      THEN Err(UnsortedDictionary, kr.cursor)
                      ELSE IF ~HasByte(bytes, kr.cursor)
                      THEN Err(UnexpectedEndOfBuffer, kr.cursor)
                      ELSE LET vr == decode_item(bytes, kr.cursor, allow)
                           IN  IF ~vr.ok THEN vr
                               ELSE DictLoop(bytes, vr.cursor, allow,
                                             Append(items, <<key.val, vr.val>>))

\* Decoder::decode_dictionary: skip `d`, then the loop.
decode_dictionary(bytes, cursor, allow) == DictLoop(bytes, cursor + 1, allow, <<>>)

\* decode_item whose last arm reports the first byte of the buffer instead of
\* the byte under the cursor.
decode_item_FirstByte(bytes, cursor, allow) ==
    LET byte == ByteAt(bytes, cursor)
    IN  IF IsDigit(byte) THEN decode_string(bytes, cursor)
        ELSE IF byte = ByteI THEN decode_integer(bytes, cursor)
        ELSE IF byte = ByteL THEN decode_list(bytes, cursor, allow)
        ELSE IF byte = ByteD THEN decode_dictionary(bytes, cursor, allow)
        ELSE Err(UnexpectedByte(ByteAt(bytes, 0)), cursor)

\* Decoder::decode_item: dispatch on the byte under the cursor.
decode_item(bytes, cursor, allow) ==
    LET byte == ByteAt(bytes, cursor)
    IN  IF IsDigit(byte) THEN decode_string(bytes, cursor)
        ELSE IF byte = ByteI THEN decode_integer(bytes, cursor)
        ELSE IF byte = ByteL THEN decode_list(bytes, cursor, allow)
        ELSE IF byte = ByteD THEN decode_dictionary(bytes, cursor, allow)
        ELSE Err(UnexpectedByte(byte), cursor)

\* ------------------------------------------------------------------ state

VARIABLES
    bytes,                        \* Decoder.bytes
    cursor,                       \* Decoder.cursor
    allow_unsorted_dictionaries,  \* Decoder.allow_unsorted_dictionaries
    items,                        \* the local Vec of Decoder::decode
    result,                       \* what Decoder::decode returned
    src,                          \* the items handed to encode
    out,                          \* the bytes encode returned
    pc,                           \* "built", "new", "decoding", "done", "encoded"
    origin,                       \* "buffer": bytes is an input; "encode": bytes is encode's output
    applied,                      \* the settings applied so far: the last one, and
                                  \* whether UnsortedDictionaries came before it
    input                         \* how the input was built (never read by an action)

vars == <<bytes, cursor, allow_unsorted_dictionaries, items, result, src, out, pc,
          origin, applied, input>>

Settings == {"SortedDictionaries", "UnsortedDictionaries"}

Pending == [kind |-> "Pending"]
Returned(v) == [kind |-> "Ok", items |-> v]
Failed(e) == [kind |-> "Err", err |-> e]

NoSetting == [last |-> "none", relaxed_before |-> FALSE]

\* Decoder::new on an input buffer; nothing decoded or encoded yet.
NewOn(buffer, how) ==
    /\ bytes = buffer
    /\ cursor = 0
    /\ allow_unsorted_dictionaries = FALSE
    /\ items = <<>>
    /\ result = Pending
    /\ src = <<>>
    /\ out = <<>>
    /\ pc = "new"
    /\ origin = "buffer"
    /\ applied = NoSetting
    /\ input = how

\* ---------------------------------------------------------------- actions

\* A decoder is built on a buffer, given settings, and decode is called on it
\* once, from cursor 0; the items it returns may be encoded, and the bytes
\* encode returns may be decoded by a new decoder.

\* Decoder::setting, before decode is called.
Setting(setting) ==
    /\ pc = "new"
    /\ allow_unsorted_dictionaries' = (setting = "UnsortedDictionaries")
    /\ applied' = [last |-> setting,
                   relaxed_before |-> applied.relaxed_before
                                         \/ applied.last = "UnsortedDictionaries"]
    /\ UNCHANGED <<bytes, cursor, items, result, src, out, pc, origin, input>>

\* One iteration of the while loop of Decoder::decode: an item is decoded and
\* pushed, or its error is returned and the local items are dropped.
DecodeStep ==
    /\ pc \in {"new", "decoding"}
    /\ HasByte(bytes, cursor)
    /\ LET r == decode_item(bytes, cursor, allow_unsorted_dictionaries)
       IN  /\ cursor' = r.cursor
           /\ IF r.ok
              THEN /\ items' = Append(items, r.val)
                   /\ pc' = "decoding"
                   /\ result' = result
              ELSE /\ items' = <<>>
                   /\ pc' = "done"
                   /\ result' = Failed(r.err)
    /\ UNCHANGED <<bytes, allow_unsorted_dictionaries, src, out, origin, applied, input>>

\* The loop of Decoder::decode ends with the buffer: Ok(items).
DecodeReturn ==
    /\ pc \in {"new", "decoding"}
    /\ ~HasByte(bytes, cursor)
    /\ result' = Returned(items)
    /\ items' = <<>>
    /\ pc' = "done"
    /\ UNCHANGED <<bytes, cursor, allow_unsorted_dictionaries, src, out, origin, applied, input>>

\* Bencode::encode of the items a caller built.
EncodeBuilt ==
    /\ pc = "built"
    /\ out' = EncodeItems(src)
    /\ pc' = "encoded"
    /\ UNCHANGED <<bytes, cursor, allow_unsorted_dictionaries, items, result, src,
                   origin, applied, input>>

\* Bencode::encode of the items decode returned (v.into_iter().encode()).
EncodeDecoded ==
    /\ pc = "done"
    /\ result.kind = "Ok"
    /\ src' = result.items
    /\ out' = EncodeItems(result.items)
    /\ pc' = "encoded"
    /\ UNCHANGED <<bytes, cursor, allow_unsorted_dictionaries, items, result,
                   origin, applied, input>>

\* Decoder::new on the bytes encode returned.
NewDecoder ==
    /\ pc = "encoded"
    /\ bytes' = out
    /\ cursor' = 0
    /\ allow_unsorted_dictionaries' = FALSE
    /\ items' = <<>>
    /\ result' = Pending
    /\ pc' = "new"
    /\ origin' = "encode"
    /\ applied' = NoSetting
    /\ UNCHANGED <<src, out, input>>

Next ==
    \/ \E setting \in Settings : Setting(setting)
    \/ DecodeStep
    \/ DecodeReturn
    \/ EncodeDecoded
    \/ NewDecoder

\* --------------------------------------------------- inputs: integer texts

\* The longest integer text drawn from IntAlphabet.
MaxText == 3

\* `0`, `5`, `-`, `+`, `x`
IntAlphabet == {48, 53, 45, 43, 120}

RECURSIVE SeqsUpTo(_, _)
SeqsUpTo(S, n) ==
    IF n = 0 THEN {<<>>}
    ELSE LET shorter == SeqsUpTo(S, n - 1)
         IN  shorter \cup {Append(t, b) : t \in {u \in shorter : Len(u) = n - 1}, b \in S}

ToBytes(digits) == [k \in 1..Len(digits) |-> digits[k] + Byte0]

\* 9223372036854775808 and 10000000000000000000: one past i64::MAX, and a
\* 20-digit number.
PastMaxText == ToBytes(I64MinMag)
TwentyDigits == ToBytes(<<1, 0, 0, 0, 0, 0, 0, 0, 0, 0, 0, 0, 0, 0, 0, 0, 0, 0, 0, 0>>)
\* -9223372036854775809: one below i64::MIN.
BelowMinText == <<ByteMinus>> \o ToBytes(<<9, 2, 2, 3, 3, 7, 2, 0, 3, 6, 8, 5, 4, 7, 7, 5, 8, 0, 9>>)
MaxText64 == ToBytes(I64MaxMag)
MinText64 == <<ByteMinus>> \o ToBytes(I64MinMag)

OverflowTexts == {PastMaxText, TwentyDigits, BelowMinText, <<BytePlus>> \o PastMaxText}
LongTexts == OverflowTexts \cup {MaxText64, MinText64, <<BytePlus>> \o MaxText64}

ShortTexts == SeqsUpTo(IntAlphabet, MaxText)

\* `i<text>e`, and `<text>:ab` with the text as a length prefix.
InitInt ==
    \/ \E t \in ShortTexts \cup LongTexts :
           NewOn(<<ByteI>> \o t \o <<ByteE>>, [fam |-> "int", text |-> t, at |-> "integer"])
    \/ \E t \in ShortTexts :
           NewOn(t \o <<ByteColon, 97, 98>>, [fam |-> "int", text |-> t, at |-> "length"])

SpecInt == InitInt /\ [][Next]_vars

\* ------------------------------------------------- claims: integer texts

\* decode has returned from a buffer `i<text>e` of the integer-text inputs.
IntegerDecoded ==
    /\ pc = "done"
    /\ origin = "buffer"
    /\ input.fam = "int"
    /\ input.at = "integer"

\* The text with one optional leading `-` ignored.
Unsigned(t) == IF t # <<>> /\ t[1] = ByteMinus THEN Tail(t) ELSE t

HasLeadingZero(t) == Len(Unsigned(t)) >= 2 /\ Unsigned(t)[1] = Byte0

IsMinusZero(t) == t = <<ByteMinus, Byte0>>

\* A byte that is no digit and not a sign in the first place.
HasNonDigit(t) ==
    \E k \in 1..Len(t) : ~IsDigit(t[k]) /\ ~(k = 1 /\ t[k] \in {ByteMinus, BytePlus})

\* `0`, or an optional `-`, a nonzero digit, then digits only.
CanonicalText(t) ==
    \/ t = <<Byte0>>
    \/ /\ Unsigned(t) # <<>>
       /\ \A k \in 1..Len(Unsigned(t)) : IsDigit(Unsigned(t)[k])
       /\ Unsigned(t)[1] # Byte0

\* The i64 a canonical text denotes.
ValueOf(t) ==
    [neg |-> t[1] = ByteMinus,
     mag |-> [k \in 1..Len(Unsigned(t)) |-> Unsigned(t)[k] - Byte0]]

\* C3: the text between `i` and `e` is classified in this order: a leading
\* zero before a further byte (one leading `-` ignored) is LeadingZeros; else
\* `-0` is NegativeZero; else the text is parsed as a base-10 i64, every
\* failure (empty, `-`, a non-digit, overflow) being InvalidData and a
\* canonical text in range giving its value, `0` giving 0.
C3_IntegerRules ==
    IntegerDecoded =>
        LET t == input.text
        IN  IF HasLeadingZero(t) THEN result = Failed(LeadingZeros)
            ELSE IF IsMinusZero(t) THEN result = Failed(NegativeZero)
            ELSE /\ result.kind = "Err" => result.err = InvalidData
                 /\ (t \in {<<>>, <<ByteMinus>>} \/ HasNonDigit(t) \/ t \in OverflowTexts)
                        => result = Failed(InvalidData)
                 /\ (CanonicalText(t) /\ t \notin OverflowTexts)
                        => result = Returned(<<[i |-> ValueOf(t)]>>)
                 /\ t = <<Byte0>> => result = Returned(<<[i |-> [neg |-> FALSE, mag |-> <<0>>]]>>)

\* `-0` followed by a further byte was decoded: LeadingZeros, not NegativeZero.
C3_Witness ==
    /\ IntegerDecoded
    /\ Len(input.text) >= 3
    /\ input.text[1] = ByteMinus
    /\ input.text[2] = Byte0
    /\ result = Failed(LeadingZeros)

\* C4: an integer is accepted only in canonical form, and a text with a
\* non-digit other than one leading `-` (a leading `+` for one) fails with
\* InvalidData, unless the leading-zero rule of C3 rejects it first.
C4_CanonicalOnly ==
    IntegerDecoded =>
        LET t == input.text
        IN  /\ result.kind = "Ok" => CanonicalText(t)
            /\ ((\E k \in 1..Len(t) : ~IsDigit(t[k]) /\ ~(k = 1 /\ t[k] = ByteMinus))
                    /\ ~HasLeadingZero(t) /\ ~IsMinusZero(t))
                   => result = Failed(InvalidData)

\* C2: when decode succeeds under strict settings, encoding the returned
\* items gives the input buffer back, byte for byte.
C2_ByteForByte ==
    (pc = "encoded" /\ origin = "buffer" /\ ~allow_unsorted_dictionaries) => out = bytes

\* ---------------------------------------------------- inputs: item trees

\* The number of nodes (items, nested ones counted) of the item trees a
\* caller builds.
MaxNodes == 3

IntegerItem(neg, mag) == [i |-> [neg |-> neg, mag |-> mag]]

\* ``, `a`, `e:0123456789` (its length has two digits); 0, -7, i64::MIN,
\* i64::MAX.
LeafItems ==
    {[s |-> <<>>], [s |-> <<97>>],
     [s |-> <<101, 58, 48, 49, 50, 51, 52, 53, 54, 55, 56, 57>>],
     IntegerItem(FALSE, <<0>>), IntegerItem(TRUE, <<7>>),
     IntegerItem(TRUE, I64MinMag), IntegerItem(FALSE, I64MaxMag)}

\* The keys of the dictionaries built: ``, `a`, `b`.
TreeKeys == {<<>>, <<97>>, <<98>>}

\* The strictly ascending sequences of n keys: the key order of a BTreeMap.
RECURSIVE AscendingKeys(_)
AscendingKeys(n) ==
    IF n = 0 THEN {<<>>}
    ELSE {ks \in {Append(js, k) : js \in AscendingKeys(n - 1), k \in TreeKeys} :
              \A j \in 1..(n - 1) : BytesLess(ks[j], ks[j + 1])}

RECURSIVE ItemsOfSize(_), ForestsOfSize(_)
\* The items of exactly n nodes: a leaf, or a list or dictionary over a
\* sequence of items of n - 1 nodes in all.
ItemsOfSize(n) ==
    IF n = 1 THEN LeafItems \cup {[l |-> <<>>], [d |-> <<>>]}
    ELSE LET below == ForestsOfSize(n - 1)
         IN  {[l |-> f] : f \in below} \cup
             UNION {{[d |-> [k \in 1..Len(f) |-> <<ks[k], f[k]>>]] : ks \in AscendingKeys(Len(f))} :
                    f \in below}

\* The sequences of items of exactly k nodes in all.
ForestsOfSize(k) ==
    IF k = 0 THEN {<<>>}
    ELSE UNION {{<<x>> \o f : x \in ItemsOfSize(j), f \in ForestsOfSize(k - j)} : j \in 1..k}

TreeSeqs == UNION {ForestsOfSize(k) : k \in 0..MaxNodes}

\* A caller has built a sequence of items; there is no decoder yet.
InitTree ==
    /\ src \in TreeSeqs
    /\ bytes = <<>>
    /\ cursor = 0
    /\ allow_unsorted_dictionaries = FALSE
    /\ items = <<>>
    /\ result = Pending
    /\ out = <<>>
    /\ pc = "built"
    /\ origin = "none"
    /\ applied = NoSetting
    /\ input = [fam |-> "tree"]

NextTree ==
    \/ EncodeBuilt
    \/ Next

SpecTree == InitTree /\ [][NextTree]_vars

\* ---------------------------------------------------- claims: round trip

\* C1: decoding, with strict settings, the bytes encode produced for a
\* sequence of item trees succeeds and returns that sequence, item for item
\* in the same order.
C1_RoundTrip ==
    (pc = "done" /\ origin = "encode" /\ ~allow_unsorted_dictionaries)
        => result = Returned(src)

\* A dictionary with an entry followed by i64::MIN went through encode and a
\* strict decode.
C1_Witness ==
    /\ pc = "done"
    /\ origin = "encode"
    /\ input.fam = "tree"
    /\ ~allow_unsorted_dictionaries
    /\ Len(src) = 2
    /\ IsDictionary(src[1])
    /\ src[1].d # <<>>
    /\ src[2] = IntegerItem(TRUE, I64MinMag)
    /\ result = Returned(src)

\* -------------------------------------------------- inputs: dictionaries

\* The number of (key, value) entries written into an input dictionary.
MaxEntries == 2

\* What is written at a key position: the strings `0:`, `1:a`, `1:b` ...
StringKeyTokens == {<<48, 58>>, <<49, 58, 97>>, <<49, 58, 98>>}
\* ... or a well-formed item that is no string: `i1e`, `le`, `de`.
OtherKeyTokens == {<<105, 49, 101>>, <<108, 101>>, <<100, 101>>}
KeyTokens == StringKeyTokens \cup OtherKeyTokens

\* The string a string token `<digit>:<bytes>` denotes.
KeyBytes(token) == SubSeq(token, 3, Len(token))

\* What is written at a value position: `i1e`, `le` ...
SortedValueTokens == {<<105, 49, 101>>, <<108, 101>>}
\* ... `d1:b0:0:0:e`, a dictionary whose only defect is the order of its keys
\* `b`, `` ...
UnsortedValueToken == <<100, 49, 58, 98, 48, 58, 48, 58, 48, 58, 101>>
\* ... nothing at all, or the byte `x`.
BadValueTokens == {<<>>, <<120>>}
ValueTokens == SortedValueTokens \cup {UnsortedValueToken} \cup BadValueTokens

RECURSIVE DictBody(_, _)
DictBody(keys, vals) ==
    IF keys = <<>> THEN <<>>
    ELSE keys[1] \o vals[1] \o DictBody(Tail(keys), Tail(vals))

\* `d`, the entries, `e` when closed; the whole inside `l` .. `e` when wrapped.
DictBuffer(keys, vals, closed, wrapped) ==
    (IF wrapped THEN <<ByteL>> ELSE <<>>)
    \o <<ByteD>> \o DictBody(keys, vals)
    \o (IF closed THEN <<ByteE>> ELSE <<>>)
    \o (IF wrapped /\ closed THEN <<ByteE>> ELSE <<>>)

SeqsOfLen(S, n) == {t \in SeqsUpTo(S, n) : Len(t) = n}

InitDict ==
    \E n \in 0..MaxEntries, closed \in BOOLEAN, wrapped \in BOOLEAN :
        \E keys \in SeqsOfLen(KeyTokens, n), vals \in SeqsOfLen(ValueTokens, n) :
            NewOn(DictBuffer(keys, vals, closed, wrapped),
                  [fam |-> "dict", keys |-> keys, vals |-> vals,
                   closed |-> closed, wrapped |-> wrapped])

SpecDict == InitDict /\ [][Next]_vars

\* ------------------------------------------------- claims: dictionaries

\* decode has returned from a buffer of the dictionary inputs.
DictDecoded ==
    /\ pc = "done"
    /\ origin = "buffer"
    /\ input.fam = "dict"

\* No setting was applied, or the last one applied is SortedDictionaries.
Strict == applied.last \in {"none", "SortedDictionaries"}

\* The values a decoder with the settings applied accepts.
GoodValues == IF Strict THEN SortedValueTokens ELSE SortedValueTokens \cup {UnsortedValueToken}

\* The first n entries of the input are string keys with well-formed values.
EntriesGood(n) ==
    \A k \in 1..n : input.keys[k] \in StringKeyTokens /\ input.vals[k] \in GoodValues

\* The key written at entry j is a string strictly less than the key before.
Descends(j) ==
    /\ j >= 2
    /\ input.keys[j] \in StringKeyTokens
    /\ input.keys[j - 1] \in StringKeyTokens
    /\ BytesLess(KeyBytes(input.keys[j]), KeyBytes(input.keys[j - 1]))

\* C5: a strict decoder (no setting, or SortedDictionaries last, also after
\* UnsortedDictionaries) fails with UnsortedDictionary on a dictionary with
\* a key strictly less than the key before it, all entries before that key
\* being well-formed, whatever stands at that key's value.
C5_StrictRejectsDescendingKey ==
    (DictDecoded /\ Strict) =>
        \A j \in 1..Len(input.keys) :
            (Descends(j) /\ EntriesGood(j - 1)) => result = Failed(UnsortedDictionary)

\* SortedDictionaries was applied after UnsortedDictionaries, the second key
\* is less than the first and has no value: UnsortedDictionary.
C5_Witness ==
    /\ DictDecoded
    /\ applied = [last |-> "SortedDictionaries", relaxed_before |-> TRUE]
    /\ Len(input.keys) = 2
    /\ Descends(2)
    /\ EntriesGood(1)
    /\ input.vals[2] = <<>>
    /\ result = Failed(UnsortedDictionary)

RECURSIVE AllSorted(_)
\* Every dictionary of the item, nested ones included, has its entries in
\* strictly ascending key order.
AllSorted(item) ==
    IF IsList(item) THEN \A k \in 1..Len(item.l) : AllSorted(item.l[k])
    ELSE IF IsDictionary(item)
    THEN /\ \A k \in 1..(Len(item.d) - 1) : BytesLess(item.d[k][1], item.d[k + 1][1])
         /\ \A k \in 1..Len(item.d) : AllSorted(item.d[k][2])
    ELSE TRUE

\* The dictionary decoded from the input: the only item returned, or the
\* only item of the list returned.
DecodedDict == IF input.wrapped THEN result.items[1].l[1] ELSE result.items[1]

\* C6: with UnsortedDictionaries in effect decode never fails with
\* UnsortedDictionary; a buffer whose only defect is the order of dictionary
\* keys decodes, its dictionary holds the keys of the input, and every
\* dictionary returned iterates in ascending key order.
C6_UnsortedAccepted ==
    (DictDecoded /\ applied.last = "UnsortedDictionaries") =>
        /\ result # Failed(UnsortedDictionary)
        /\ (EntriesGood(Len(input.keys)) /\ input.closed) =>
               /\ result.kind = "Ok"
               /\ Len(result.items) = 1
               /\ IsDictionary(DecodedDict)
               /\ {DecodedDict.d[k][1] : k \in 1..Len(DecodedDict.d)}
                      = {KeyBytes(input.keys[k]) : k \in 1..Len(input.keys)}
        /\ result.kind = "Ok" => \A k \in 1..Len(result.items) : AllSorted(result.items[k])

\* Keys written in descending order, with a nested unsorted dictionary as a
\* value, were decoded under UnsortedDictionaries.
C6_Witness ==
    /\ DictDecoded
    /\ applied.last = "UnsortedDictionaries"
    /\ Len(input.keys) = 2
    /\ Descends(2)
    /\ input.vals[1] = UnsortedValueToken
    /\ result.kind = "Ok"
    /\ Len(DecodedDict.d) = 2

\* No key before entry j is less than the key before it.
AscendsBefore(j) == \A k \in 1..(j - 1) : ~Descends(k)

\* C7: a well-formed item that is not a byte-string at a key position fails
\* with InvalidDictionaryKey under either setting (the entries before it
\* being accepted), and decode returns no dictionary.
C7_KeyMustBeString ==
    DictDecoded =>
        \A j \in 1..Len(input.keys) :
            (/\ input.keys[j] \in OtherKeyTokens
             /\ EntriesGood(j - 1)
             /\ Strict => AscendsBefore(j))
                => result = Failed(InvalidDictionaryKey)

\* A list stood at the second key position, under UnsortedDictionaries.
C7_Witness ==
    /\ DictDecoded
    /\ applied.last = "UnsortedDictionaries"
    /\ Len(input.keys) = 2
    /\ input.keys[2] = <<ByteL, ByteE>>
    /\ EntriesGood(1)
    /\ result = Failed(InvalidDictionaryKey)

\* ------------------------------------------------------ claims: encoder

\* The decimal text of a natural number.
RECURSIVE DecimalText(_)
DecimalText(n) ==
    IF n = 0 THEN <<>> ELSE DecimalText(n \div 10) \o <<Byte0 + (n % 10)>>

\* The least of a non-empty set of byte-strings.
LeastKey(keys) == CHOOSE k \in keys : \A o \in keys : o = k \/ BytesLess(k, o)

RECURSIVE Reference(_), ReferenceSeq(_), ReferenceEntries(_, _)
\* The structural reference of an item's encoding.  A dictionary's entries
\* are taken in ascending order of the set of its keys, whatever the order
\* in which the map holds them.
Reference(item) ==
    IF IsString(item)
    THEN (IF item.s = <<>> THEN <<Byte0>> ELSE DecimalText(Len(item.s))) \o <<ByteColon>> \o item.s
    ELSE IF IsInteger(item)
    THEN <<ByteI>> \o (IF item.i.neg THEN <<ByteMinus>> ELSE <<>>)
                   \o ToBytes(item.i.mag) \o <<ByteE>>
    ELSE IF IsList(item) THEN <<ByteL>> \o ReferenceSeq(item.l) \o <<ByteE>>
    ELSE <<ByteD>>
         \o ReferenceEntries(item.d, {item.d[k][1] : k \in 1..Len(item.d)})
         \o <<ByteE>>

ReferenceSeq(seq) ==
    IF seq = <<>> THEN <<>> ELSE Reference(seq[1]) \o ReferenceSeq(Tail(seq))

ReferenceEntries(m, keys) ==
    IF keys = {} THEN <<>>
    ELSE LET key == LeastKey(keys)
             at == CHOOSE k \in 1..Len(m) : m[k][1] = key
         IN  Reference([s |-> key]) \o Reference(m[at][2])
             \o ReferenceEntries(m, keys \ {key})

\* The number of entries of the dictionaries of an item, nested ones
\* included.
RECURSIVE EntryCount(_)
EntryCount(item) ==
    IF IsList(item) THEN
        IF item.l = <<>> THEN 0
        ELSE EntryCount(item.l[1]) + EntryCount([l |-> Tail(item.l)])
    ELSE IF IsDictionary(item) THEN
        IF item.d = <<>> THEN 0
        ELSE 1 + EntryCount(item.d[1][2]) + EntryCount([d |-> Tail(item.d)])
    ELSE 0

\* The number of distinct keys of the dictionaries of an item, nested ones
\* included.
RECURSIVE KeyCount(_)
KeyCount(item) ==
    IF IsList(item) THEN
        IF item.l = <<>> THEN 0
        ELSE KeyCount(item.l[1]) + KeyCount([l |-> Tail(item.l)])
    ELSE IF IsDictionary(item) THEN
        Cardinality({item.d[k][1] : k \in 1..Len(item.d)})
        + KeyCount([l |-> [k \in 1..Len(item.d) |-> item.d[k][2]]])
    ELSE 0

\* C9: encode returns, for every sequence of items handed to it, the
\* structural reference: length, `:` and bytes of a string; `i`, decimal
\* text, `e` of an integer; `l`, the items in order, `e` of a list; `d`, each
\* key and value once in ascending key order, `e` of a dictionary, also of
\* one decoded from unsorted input.
C9_EncodeIsReference ==
    pc = "encoded" =>
        /\ out = ReferenceSeq(src)
        /\ EntryCount([l |-> src]) = KeyCount([l |-> src])

\* A dictionary whose keys were written in descending order, one value a
\* nested unsorted dictionary, was decoded under UnsortedDictionaries and
\* then encoded: the output differs from the input.
C9_Witness ==
    /\ pc = "encoded"
    /\ origin = "buffer"
    /\ input.fam = "dict"
    /\ applied.last = "UnsortedDictionaries"
    /\ Len(input.keys) = 2
    /\ Descends(2)
    /\ input.vals[2] = UnsortedValueToken
    /\ out # bytes
    /\ out = ReferenceSeq(src)

\* Encode is checked on the items callers build and on the items decoded
\* from the dictionary inputs.
SpecEncode == (InitTree \/ InitDict) /\ [][NextTree]_vars

\* ------------------------------------------------- inputs: byte-strings

\* The longest buffer drawn from StringAlphabet.
MaxBuffer == 5

\* `0`, `1`, `2`, `:`, `e`, `a`
StringAlphabet == {48, 49, 50, 58, 101, 97}

\* Every buffer over the alphabet that starts with a digit.
InitString ==
    \E buffer \in SeqsUpTo(StringAlphabet, MaxBuffer) :
        /\ buffer # <<>>
        /\ IsDigit(buffer[1])
        /\ NewOn(buffer, [fam |-> "string"])

SpecString == InitString /\ [][Next]_vars

\* -------------------------------------------------- claims: byte-strings

\* `0`, or digits that start with a nonzero one.
ValidLength(prefix) ==
    \/ prefix = <<Byte0>>
    \/ /\ prefix # <<>>
       /\ \A k \in 1..Len(prefix) : IsDigit(prefix[k])
       /\ prefix[1] # Byte0

\* The number a decimal text denotes.
RECURSIVE DecimalValue(_)
DecimalValue(text) ==
    IF text = <<>> THEN 0
    ELSE 10 * DecimalValue(SubSeq(text, 1, Len(text) - 1)) + (text[Len(text)] - Byte0)

\* The positions of `:` at or after the cursor.
ColonsAhead == {p \in cursor..(Len(bytes) - 1) : bytes[p + 1] = ByteColon}

\* C8: a step of decode on a digit fails with UnexpectedEndOfBuffer when no
\* `:` follows; with a valid length prefix <len> before the first `:` it
\* takes exactly the <len> bytes after the `:` as the string, whatever they
\* are, and leaves the cursor on the byte after them, or fails with
\* UnexpectedEndOfBuffer when fewer than <len> bytes remain.
C8_StringProduction ==
    [][(DecodeStep /\ IsDigit(bytes[cursor + 1])) =>
        IF ColonsAhead = {}
        THEN pc' = "done" /\ result' = Failed(UnexpectedEndOfBuffer)
        ELSE LET colon == CHOOSE p \in ColonsAhead : \A q \in ColonsAhead : p <= q
                 prefix == SubSeq(bytes, cursor + 1, colon)
                 len == DecimalValue(prefix)
             IN  ValidLength(prefix) =>
                     IF colon + 1 + len <= Len(bytes)
                     THEN /\ pc' = "decoding"
                          /\ items' = Append(items, [s |-> [k \in 1..len |-> bytes[colon + 1 + k]]])
                          /\ cursor' = colon + 1 + len
                     ELSE pc' = "done" /\ result' = Failed(UnexpectedEndOfBuffer)
    ]_vars

\* `1::0:` was decoded: the string `:` and then, from the byte after it, the
\* empty string.
C8_Witness ==
    /\ input.fam = "string"
    /\ origin = "buffer"
    /\ pc = "decoding"
    /\ items = <<[s |-> <<ByteColon>>], [s |-> <<>>]>>
    /\ cursor = Len(bytes)

\* ------------------------------------------- inputs: truncated containers

RECURSIVE Truncations(_)
\* The encoding of a list or dictionary cut where the buffer can end with the
\* closing `e` missing: after the opening byte, after any number of complete
\* items, after a key, or inside a nested list or dictionary cut this way.
Truncations(item) ==
    IF IsList(item)
    THEN {<<ByteL>> \o EncodeItems(SubSeq(item.l, 1, k)) : k \in 0..Len(item.l)} \cup
         UNION {{<<ByteL>> \o EncodeItems(SubSeq(item.l, 1, k - 1)) \o t :
                     t \in Truncations(item.l[k])} : k \in 1..Len(item.l)}
    ELSE IF IsDictionary(item)
    THEN {<<ByteD>> \o EncodePairs(SubSeq(item.d, 1, k)) : k \in 0..Len(item.d)} \cup
         {<<ByteD>> \o EncodePairs(SubSeq(item.d, 1, k - 1)) \o EncodeString(item.d[k][1]) :
              k \in 1..Len(item.d)} \cup
         UNION {{<<ByteD>> \o EncodePairs(SubSeq(item.d, 1, k - 1))
                     \o EncodeString(item.d[k][1]) \o t :
                     t \in Truncations(item.d[k][2])} : k \in 1..Len(item.d)}
    ELSE {}

Containers == {item \in UNION {ItemsOfSize(n) : n \in 1..MaxNodes} : IsList(item) \/ IsDictionary(item)}

\* The encoding of a list or dictionary, whole or truncated.
InitTruncated ==
    \E item \in Containers :
        \/ NewOn(Encode(item), [fam |-> "truncated", item |-> item, cut |-> FALSE])
        \/ \E t \in Truncations(item) :
               NewOn(t, [fam |-> "truncated", item |-> item, cut |-> TRUE])

SpecTruncated == InitTruncated /\ [][Next]_vars

\* C10: a list or dictionary whose closing `e` is missing because the buffer
\* ends first fails with UnexpectedEndOfBuffer; a list that is closed yields
\* its items in the order of the buffer.
C10_MissingEnd ==
    (pc = "done" /\ origin = "buffer" /\ input.fam = "truncated") =>
        IF input.cut THEN result = Failed(UnexpectedEndOfBuffer)
        ELSE IsList(input.item) => result = Returned(<<input.item>>)

\* The buffer ended after the key of a dictionary's second entry.
C10_Witness ==
    /\ pc = "done"
    /\ origin = "buffer"
    /\ input.fam = "truncated"
    /\ input.cut
    /\ IsDictionary(input.item)
    /\ Len(input.item.d) = 2
    /\ bytes = <<ByteD>> \o EncodePairs(SubSeq(input.item.d, 1, 1)) \o EncodeString(input.item.d[2][1])
    /\ result = Failed(UnexpectedEndOfBuffer)

\* ------------------------------------------ inputs: a byte no item starts

RECURSIVE OpenCuts(_)
\* The encoding of a list or dictionary cut at a position where decode_item
\* is about to be called or the container may close: before a list element,
\* before a dictionary key, before a dictionary value, at any depth. `at`
\* names the position the cut ends at.
OpenCuts(item) ==
    IF IsList(item)
    THEN {[bytes |-> <<ByteL>> \o EncodeItems(SubSeq(item.l, 1, k)), at |-> "list element"] :
              k \in 0..Len(item.l)} \cup
         UNION {{[bytes |-> <<ByteL>> \o EncodeItems(SubSeq(item.l, 1, k - 1)) \o c.bytes,
                  at |-> c.at] : c \in OpenCuts(item.l[k])} : k \in 1..Len(item.l)}
    ELSE IF IsDictionary(item)
    THEN {[bytes |-> <<ByteD>> \o EncodePairs(SubSeq(item.d, 1, k)), at |-> "dictionary key"] :
              k \in 0..Len(item.d)} \cup
         {[bytes |-> <<ByteD>> \o EncodePairs(SubSeq(item.d, 1, k - 1))
                         \o EncodeString(item.d[k][1]),
           at |-> "dictionary value"] : k \in 1..Len(item.d)} \cup
         UNION {{[bytes |-> <<ByteD>> \o EncodePairs(SubSeq(item.d, 1, k - 1))
                                \o EncodeString(item.d[k][1]) \o c.bytes,
                  at |-> c.at] : c \in OpenCuts(item.d[k][2])} : k \in 1..Len(item.d)}
    ELSE {}

\* Bytes that are not an ASCII digit, `i`, `l` or `d`: `e`, `x`, `:`.
OtherBytes == {ByteE, 120, ByteColon}

\* Well-formed items up to an item position, then a byte no item starts with:
\* at top level after any number of whole items, or inside an open list or
\* dictionary.
InitOtherByte ==
    \E b \in OtherBytes :
        \/ \E forest \in TreeSeqs :
               NewOn(EncodeItems(forest) \o <<b>>,
                     [fam |-> "other byte", at |-> "top level", before |-> Len(forest),
                      byte |-> b])
        \/ \E item \in Containers : \E c \in OpenCuts(item) :
               NewOn(c.bytes \o <<b>>,
                     [fam |-> "other byte", at |-> c.at, before |-> 0, byte |-> b])

SpecOtherByte == InitOtherByte /\ [][Next]_vars

\* The byte closes the container it stands in: `e` where a list element or a
\* dictionary key may start.
ClosesContainer == input.byte = ByteE /\ input.at \in {"list element", "dictionary key"}

\* C11: where an item is expected (top level, list element, dictionary key,
\* dictionary value) a byte that is not a digit, `i`, `l` or `d` makes decode
\* fail with UnexpectedByte carrying that byte, `e` at top level and at a
\* dictionary value position included (`e` before a list element or a
\* dictionary key closes the container instead); decode returns the error
\* alone, without the items parsed before it.
C11_UnexpectedByte ==
    (pc = "done" /\ origin = "buffer" /\ input.fam = "other byte"
        /\ ~ClosesContainer) =>
        /\ result = Failed(UnexpectedByte(input.byte))
        /\ DOMAIN result = {"kind", "err"}
        /\ items = <<>>

\* Two whole items were parsed at top level before an `e` failed the call.
C11_Witness ==
    /\ pc = "done"
    /\ origin = "buffer"
    /\ input.fam = "other byte"
    /\ input.at = "top level"
    /\ input.before = 2
    /\ input.byte = ByteE
    /\ cursor = Len(bytes) - 1
    /\ result = Failed(UnexpectedByte(ByteE))

\* An `e` where the value of a dictionary's second entry should start.
C11_WitnessValue ==
    /\ pc = "done"
    /\ origin = "buffer"
    /\ input.fam = "other byte"
    /\ input.at = "dictionary value"
    /\ input.byte = ByteE
    /\ result = Failed(UnexpectedByte(ByteE))

\* --------------------------------------------- claims: repeated keys

\* The item a value token `i1e` or `le` denotes.
ValueItem(token) == IF token = <<ByteI, 49, ByteE>> THEN IntegerItem(FALSE, <<1>>) ELSE [l |-> <<>>]

\* Entry j of the input has the same key as entry j - 1.
Repeats(j) == j >= 2 /\ input.keys[j] = input.keys[j - 1]

\* Some entry of the input repeats the key of the entry before it.
HasRepeat == \E j \in 1..Len(input.keys) : Repeats(j)

RECURSIVE LastOfRuns(_, _)
\* The entries written in the input without those followed by an entry of
\* the same key: of a run of equal keys only the last entry.
LastOfRuns(keys, vals) ==
    IF keys = <<>> THEN <<>>
    ELSE IF Len(keys) >= 2 /\ keys[2] = keys[1] THEN LastOfRuns(Tail(keys), Tail(vals))
    ELSE << <<KeyBytes(keys[1]), ValueItem(vals[1])>> >> \o LastOfRuns(Tail(keys), Tail(vals))

\* C12: a strict decoder accepts a closed dictionary of well-formed entries
\* whose keys never descend, consecutive equal keys included; the dictionary
\* returned holds each key once with the value of its last occurrence, so
\* with a repeated key it has fewer entries than the input has pairs.
C12_RepeatedKey ==
    (/\ DictDecoded
     /\ Strict
     /\ input.closed
     /\ EntriesGood(Len(input.keys))
     /\ AscendsBefore(Len(input.keys) + 1)) =>
        /\ result.kind = "Ok"
        /\ Len(result.items) = 1
        /\ DecodedDict = [d |-> LastOfRuns(input.keys, input.vals)]
        /\ HasRepeat => Len(DecodedDict.d) < Len(input.keys)

\* The key `a` was written twice, first with `i1e` and then with `le`: the
\* dictionary returned maps `a` to the empty list only.
C12_Witness ==
    /\ DictDecoded
    /\ Strict
    /\ input.closed
    /\ ~input.wrapped
    /\ input.keys = <<<<49, ByteColon, 97>>, <<49, ByteColon, 97>>>>
    /\ input.vals = <<<<ByteI, 49, ByteE>>, <<ByteL, ByteE>>>>
    /\ result = Returned(<<[d |-> <<<<<<97>>, [l |-> <<>>]>>>>]>>)

\* ------------------------------------------------- inputs: any buffer

\* The length of a buffer of arbitrary bytes.
MaxBytes == 4

\* `i`, `l`, `d`, `e`, `0`, `1`, `:`, `-`.
AnyAlphabet == {ByteI, ByteL, ByteD, ByteE, Byte0, 49, ByteColon, ByteMinus}

\* Every buffer of up to MaxBytes bytes of the alphabet, the empty one
\* included, and the encoding of every list and dictionary.
InitAny ==
    \/ \E buffer \in SeqsUpTo(AnyAlphabet, MaxBytes) :
           NewOn(buffer, [fam |-> "any", encoded |-> FALSE])
    \/ \E item \in Containers :
           NewOn(Encode(item), [fam |-> "any", encoded |-> TRUE])

SpecAny == InitAny /\ [][Next]_vars

\* DecodeStep can be taken: its guard.  Every DecodeStep changes pc or items,
\* so this is ENABLED <<DecodeStep>>_vars.
StepEnabled == pc \in {"new", "decoding"} /\ HasByte(bytes, cursor)

\* WF_vars(DecodeStep), with ENABLED written out as StepEnabled.
StepFair == []<>(~StepEnabled) \/ []<><<DecodeStep>>_vars

\* decode runs to its return: a call of decode is straight-line code that
\* nothing suspends, so the loop takes its next step while a byte is left and
\* returns when none is.
SpecAnyFair == SpecAny /\ StepFair /\ WF_vars(DecodeReturn)

\* ------------------------------------------------- claims: termination

\* decode_item called at any byte of a buffer of arbitrary bytes, as it is
\* for a nested item, leaves the cursor beyond that byte when it succeeds,
\* and never before it.
ItemAdvances ==
    ~input.encoded =>
        \A c \in 0..(Len(bytes) - 1) :
            LET r == decode_item(bytes, c, allow_unsorted_dictionaries)
            IN  IF r.ok THEN r.cursor > c /\ r.cursor <= Len(bytes) ELSE r.cursor >= c

\* A step of decode's loop that pushed an item moved the cursor forward, and
\* no step of decode moved it backwards.
CursorForward ==
    /\ DecodeStep /\ pc' = "decoding" => cursor' > cursor
    /\ DecodeStep \/ DecodeReturn => cursor' >= cursor

RECURSIVE TopLevelFrom(_, _)
\* The items returned from index k on are the items that start at cursor c
\* and follow each other up to the end of the buffer.
TopLevelFrom(c, k) ==
    IF k > Len(result.items) THEN c = Len(bytes)
    ELSE /\ c < Len(bytes)
         /\ LET r == decode_item(bytes, c, allow_unsorted_dictionaries)
            IN  r.ok /\ r.val = result.items[k] /\ TopLevelFrom(r.cursor, k + 1)

\* decode has returned: an error, or every top-level item with the cursor at
\* the end of the buffer, no item for the empty buffer.
ReturnedWhole ==
    pc = "done" =>
        \/ result.kind = "Err"
        \/ /\ result.kind = "Ok"
           /\ cursor = Len(bytes)
           /\ TopLevelFrom(0, 1)
           /\ bytes = <<>> => result.items = <<>>

\* C13: decode terminates on every buffer under either setting; a parsed
\* item moves the cursor strictly forward, the cursor never moves backwards,
\* and the call comes to return an error or, with the cursor at the length
\* of the buffer, all top-level items (none for the empty buffer).
C13_Terminates ==
    /\ [][CursorForward]_vars
    /\ [](ItemAdvances /\ ReturnedWhole)
    /\ (pc \in {"new", "decoding"}) ~> (pc = "done")

\* Under UnsortedDictionaries decode returned the two items of `0:le`, the
\* empty string and the empty list, with the cursor at the end of the buffer.
C13_Witness ==
    /\ pc = "done"
    /\ origin = "buffer"
    /\ input.fam = "any"
    /\ ~input.encoded
    /\ applied.last = "UnsortedDictionaries"
    /\ bytes = <<Byte0, ByteColon, ByteL, ByteE>>
    /\ cursor = 4
    /\ result = Returned(<<[s |-> <<>>], [l |-> <<>>]>>)

====
